---------------------------- MODULE Spec2Model ----------------------------
(* A model of firewall_madrigal: the XDP packet filter (firewall-ebpf) and *)
(* the interactive control tool (firewall-cli).                            *)
(*                                                                         *)
(* Four specifications share one set of variables; each drives one part    *)
(* of the program and leaves the other parts at rest:                      *)
(*   Spec        the packet decision (xdp_firewall) under a configuration  *)
(*   SpecPtrAt   the bounded accessor ptr_at as a function of its inputs   *)
(*   SpecConfig  config.cfg: ensure_config_exists, choose_interface,       *)
(*               update_config_iface, parse_config, configure_file         *)
(*   SpecMain    main's menu loop, run_firewall and the Ctrl+C handler     *)
EXTENDS Integers, Sequences, FiniteSets, TLC

VARIABLES
    \* ---- packet filter ----
    xpc,        \* "off" | "idle" | "rx" | "done"
    cfg,        \* the configuration map run_firewall read
    parts,      \* the argument list run_firewall composed
    launched,   \* the argv of the launched command
    pkt,        \* bytes of the frame in flight
    pktStart,   \* ctx.data()
    verdict,    \* <<action code>> once returned, NoVerdict before
    sent,       \* the fields the sender put in the frame in flight
    \* ---- ptr_at alone ----
    paIn,       \* the inputs of the last ptr_at call
    paOut,      \* its outcome
    \* ---- config file ----
    cpc,        \* "start" | "menu" | "crashed"
    file,       \* content of config.cfg: Missing or its "\n"-separated segments
    prevFile,   \* content before the last operation
    lastOp,     \* the last operation of the tool on the file
    lastInput,  \* the text typed in choose_interface
    lastIface,  \* the name handed to update_config_iface
    nUpdates,   \* update_config_iface calls since anything else wrote the file
    nEdits,     \* editor sessions so far
    console,    \* the last message printed
    \* ---- main loop ----
    mpc,        \* position of the main thread
    running,    \* the AtomicBool
    sigPending, \* Ctrl+C signals the handler thread has not served yet
    ctrlcInRun, \* a Ctrl+C arrived since run_firewall was entered
    nRuns,      \* run_firewall calls so far
    nCtrlC      \* Ctrl+C presses so far

xdpVars  == <<xpc, cfg, parts, launched, pkt, pktStart, verdict, sent>>
paVars   == <<paIn, paOut>>
cfgVars  == <<cpc, file, prevFile, lastOp, lastInput, lastIface, nUpdates, nEdits, console>>
mainVars == <<mpc, running, sigPending, ctrlcInRun, nRuns, nCtrlC>>
vars     == <<xdpVars, paVars, cfgVars, mainVars>>

-----------------------------------------------------------------------------
(* Bounds *)

\* usize is modelled WordBits wide; sums wrap modulo 2^WordBits.
WordBits == 16
\* longest frame delivered to the filter
MaxPktLen == 55
\* longest config.cfg, in lines, that the tool starts from or an editor adds to
MaxLines == 3
\* update_config_iface calls in a row, and editor sessions, explored
MaxUpdates == 2
MaxEdits == 1
\* run_firewall calls and Ctrl+C presses explored
MaxRuns == 2
MaxCtrlC == 2

Word == 2 ^ WordBits

-----------------------------------------------------------------------------
(* Program constants *)

ETH_HDR_LEN == 14
IPV4_HDR_LEN == 20
SizeOfEthHdr == 14
SizeOfIpv4Hdr == 20
SizeOfTcpHdr == 20
SizeOfUdpHdr == 8

XDP_ABORTED == 0
XDP_DROP == 1
XDP_PASS == 2
NoVerdict == <<>>

ALLOWED_HTTP == 80
ALLOWED_HTTPS == 443
ALLOWED_DNS == 53

ETH_P_IP == 2048
IPPROTO_TCP == 6
IPPROTO_UDP == 17

-----------------------------------------------------------------------------
(* Byte order. The filter is built for a little-endian target: a header    *)
(* field is loaded as the bytes lie in memory and converted with from_be.  *)

LoadU16(b0, b1) == b0 + 256 * b1
LoadU32(b0, b1, b2, b3) == b0 + 256 * b1 + 65536 * b2 + 16777216 * b3

\* u16::from_be / u16::to_be on a little-endian target: swap the two bytes
SwapU16(x) == (x % 256) * 256 + (x \div 256)
\* u32::from_be on a little-endian target: reverse the four bytes
SwapU32(x) ==
    (x % 256) * 16777216 + ((x \div 256) % 256) * 65536
        + ((x \div 65536) % 256) * 256 + (x \div 16777216)

\* EtherType::Ipv4 and the IpProto discriminants compared in the matches
EtherTypeIpv4 == SwapU16(ETH_P_IP)

-----------------------------------------------------------------------------
(* XdpContext: a byte window [data, data_end) in memory *)

Ctx(start, bytes) == [data |-> start, data_end |-> start + Len(bytes), bytes |-> bytes]

\* The byte at an absolute address. Memory outside the window is not the
\* packet's; the filter never reads it when ptr_at is right.
MemAt(ctx, addr) ==
    IF addr >= ctx.data /\ addr < ctx.data_end
    THEN ctx.bytes[addr - ctx.data + 1]
    ELSE 0

\* mutant: the size of T left out of the comparison
ptr_at_nolen(ctx, offset, len) ==
    IF (ctx.data + offset) % Word > ctx.data_end
    THEN [ok |-> FALSE, ptr |-> 0]
    ELSE [ok |-> TRUE, ptr |-> (ctx.data + offset) % Word]

\* mutant: >= in place of >
ptr_at_strict(ctx, offset, len) ==
    IF (ctx.data + offset + len) % Word >= ctx.data_end
    THEN [ok |-> FALSE, ptr |-> 0]
    ELSE [ok |-> TRUE, ptr |-> (ctx.data + offset) % Word]

\* ptr_at<T>(ctx, offset), len = size_of::<T>(); usize sums wrap
ptr_at(ctx, offset, len) ==
    IF (ctx.data + offset + len) % Word > ctx.data_end
    THEN [ok |-> FALSE, ptr |-> 0]
    ELSE [ok |-> TRUE, ptr |-> (ctx.data + offset) % Word]

\* lookup_country: the first octet of the host-order address
lookup_country(src_ip) ==
    LET first_octet == (src_ip \div 16777216) % 256 IN
    CASE first_octet = 1 -> "US"  [] first_octet = 2 -> "CA"
      [] first_octet = 3 -> "MX"  [] first_octet = 4 -> "BR"
      [] first_octet = 5 -> "RU"  [] first_octet = 6 -> "CN"
      [] first_octet = 7 -> "IN"  [] first_octet = 8 -> "GB"
      [] first_octet = 9 -> "DE"  [] first_octet = 10 -> "FR"
      [] first_octet = 11 -> "ES" [] first_octet = 12 -> "IT"
      [] first_octet = 13 -> "AU" [] first_octet = 14 -> "JP"
      [] first_octet = 15 -> "KR" [] first_octet = 16 -> "SE"
      [] first_octet = 17 -> "NO" [] first_octet = 18 -> "FI"
      [] first_octet = 19 -> "DK" [] first_octet = 20 -> "NL"
      [] first_octet = 21 -> "BE" [] first_octet = 22 -> "CH"
      [] first_octet = 23 -> "AT" [] first_octet = 24 -> "PL"
      [] first_octet = 25 -> "CZ" [] first_octet = 26 -> "SK"
      [] first_octet = 27 -> "HU" [] first_octet = 28 -> "RO"
      [] first_octet = 29 -> "BG" [] first_octet = 30 -> "TR"
      [] OTHER -> "OTHER"

\* Header fields as the code reads them through a pointer a ptr_at returned
EthEtherType(ctx, p) == LoadU16(MemAt(ctx, p + 12), MemAt(ctx, p + 13))
Ipv4Proto(ctx, p) == MemAt(ctx, p + 9)
Ipv4SrcAddr(ctx, p) ==
    LoadU32(MemAt(ctx, p + 12), MemAt(ctx, p + 13), MemAt(ctx, p + 14), MemAt(ctx, p + 15))
Ipv4DstAddr(ctx, p) ==
    LoadU32(MemAt(ctx, p + 16), MemAt(ctx, p + 17), MemAt(ctx, p + 18), MemAt(ctx, p + 19))
TransportSource(ctx, p) == LoadU16(MemAt(ctx, p), MemAt(ctx, p + 1))

Ok(ret) == [ok |-> TRUE, ret |-> ret]
Err == [ok |-> FALSE, ret |-> 0]

\* The tail of try_xdp_firewall: the port comparison
PortDecision(source_port) ==
    IF source_port = ALLOWED_HTTP \/ source_port = ALLOWED_HTTPS \/ source_port = ALLOWED_DNS
    THEN Ok(XDP_PASS)
    ELSE Ok(XDP_DROP)

\* mutant: the transport header is read before the protocol is dispatched
try_xdp_firewall_eager(ctx) ==
    LET eth == ptr_at(ctx, 0, SizeOfEthHdr) IN
    IF ~eth.ok THEN Err
    ELSE IF EthEtherType(ctx, eth.ptr) # EtherTypeIpv4 THEN Ok(XDP_PASS)
    ELSE
      LET ip == ptr_at(ctx, ETH_HDR_LEN, SizeOfIpv4Hdr) IN
      IF ~ip.ok THEN Err
      ELSE
        LET proto == Ipv4Proto(ctx, ip.ptr)
            l4 == ptr_at(ctx, ETH_HDR_LEN + IPV4_HDR_LEN, SizeOfUdpHdr)
        IN  IF ~l4.ok THEN Err
            ELSE IF proto \in {IPPROTO_TCP, IPPROTO_UDP}
                 THEN PortDecision(SwapU16(TransportSource(ctx, l4.ptr)))
                 ELSE Ok(XDP_DROP)

\* try_xdp_firewall
try_xdp_firewall(ctx) ==
    LET ethhdr == ptr_at(ctx, 0, SizeOfEthHdr) IN
    IF ~ethhdr.ok THEN Err
    ELSE IF EthEtherType(ctx, ethhdr.ptr) # EtherTypeIpv4 THEN Ok(XDP_PASS)
    ELSE
      LET ipv4hdr == ptr_at(ctx, ETH_HDR_LEN, SizeOfIpv4Hdr) IN
      IF ~ipv4hdr.ok THEN Err
      ELSE
        LET src_ip  == SwapU32(Ipv4SrcAddr(ctx, ipv4hdr.ptr))
            dst_ip  == SwapU32(Ipv4DstAddr(ctx, ipv4hdr.ptr))
            country == lookup_country(src_ip)
            proto   == Ipv4Proto(ctx, ipv4hdr.ptr)
        IN
        IF proto = IPPROTO_TCP THEN
            LET tcphdr == ptr_at(ctx, ETH_HDR_LEN + IPV4_HDR_LEN, SizeOfTcpHdr) IN
            IF ~tcphdr.ok THEN Err
            ELSE PortDecision(SwapU16(TransportSource(ctx, tcphdr.ptr)))
        ELSE IF proto = IPPROTO_UDP THEN
            LET udphdr == ptr_at(ctx, ETH_HDR_LEN + IPV4_HDR_LEN, SizeOfUdpHdr) IN
            IF ~udphdr.ok THEN Err
            ELSE PortDecision(SwapU16(TransportSource(ctx, udphdr.ptr)))
        ELSE Ok(XDP_DROP)

\* xdp_firewall
xdp_firewall(ctx) ==
    LET r == try_xdp_firewall(ctx) IN
    IF r.ok THEN r.ret ELSE XDP_ABORTED

-----------------------------------------------------------------------------
(* Text of config.cfg. A line is a string; the operations on strings are   *)
(* given on the lines that occur.                                          *)

KIface == "\"iface\""
KIfacePadded == "  \"iface\" "
KAllowedPorts == "\"allowed-ports\""
KBlockedIps == "\"blocked-ips\""
KBlockedCountries == "\"blocked-countries\""

\* str::trim
Trim(s) ==
    CASE s = KIfacePadded -> KIface
      [] s = " 443" -> "443"
      [] s = " RU" -> "RU"
      [] OTHER -> s

\* str::trim_matches('"')
TrimQuotes(s) ==
    CASE s = KIface -> "iface"
      [] s = KAllowedPorts -> "allowed-ports"
      [] s = KBlockedIps -> "blocked-ips"
      [] s = KBlockedCountries -> "blocked-countries"
      [] OTHER -> s

\* str::split(',')
SplitComma(s) ==
    CASE s = "80, 443" -> <<"80", " 443">>
      [] s = "CN, RU" -> <<"CN", " RU">>
      [] OTHER -> <<s>>

\* The file: absent, or its text cut at every "\n" (so "a\n" is <<"a", "">>
\* and the empty text is <<"">>).
Missing == [exists |-> FALSE, segs |-> <<>>]
Content(segs) == [exists |-> TRUE, segs |-> segs]

\* fs::read_to_string(path).unwrap_or_default()
ReadToString(f) == IF f.exists THEN f.segs ELSE <<"">>

\* str::lines: the pieces between line ends; a final empty piece is no line
Lines(segs) ==
    IF segs # <<>> /\ segs[Len(segs)] = ""
    THEN SubSeq(segs, 1, Len(segs) - 1)
    ELSE segs

\* lines.join("\n"), as the text cut at every "\n"
JoinLines(lines) == IF lines = <<>> THEN <<"">> ELSE lines

EmptyMap == <<>>
Insert(map, k, v) == [x \in DOMAIN map \cup {k} |-> IF x = k THEN v ELSE map[x]]
Get(map, k, default) == IF k \in DOMAIN map THEN map[k] ELSE default

RECURSIVE ParseFrom(_, _, _)
ParseFrom(lines, i, map) ==
    IF i > Len(lines) THEN map
    ELSE LET key == TrimQuotes(Trim(lines[i])) IN
         IF i + 1 <= Len(lines)
         THEN ParseFrom(lines, i + 2, Insert(map, key, Trim(lines[i + 1])))
         ELSE ParseFrom(lines, i + 1, map)

\* parse_config
parse_config(f) == ParseFrom(Lines(ReadToString(f)), 1, EmptyMap)

\* ensure_config_exists: the default text
DefaultConfig ==
    <<KIface, "eth0", KAllowedPorts, "80, 443", KBlockedIps, "", KBlockedCountries, "">>

\* .split(',').map(str::trim).filter(|s| !s.is_empty()).collect().join(" "),
\* the joined text kept as the sequence of its words
Words(value) ==
    LET pieces == SplitComma(value)
        trimmed == [i \in DOMAIN pieces |-> Trim(pieces[i])]
    IN  SelectSeq(trimmed, LAMBDA t : t # "")

\* run_firewall up to the launch: the argument list it composes
ComposeParts(config) ==
    LET iface == Get(config, "iface", "eth0")
        ports == Words(Get(config, "allowed-ports", ""))
        blocked_ips == Words(Get(config, "blocked-ips", ""))
        blocked_countries == Words(Get(config, "blocked-countries", ""))
    IN  <<[flag |-> "--iface", words |-> <<Trim(iface)>>]>>
        \o (IF ports # <<>> THEN <<[flag |-> "--ports", words |-> ports]>> ELSE <<>>)
        \o (IF blocked_ips # <<>>
            THEN <<[flag |-> "--blocked-ips", words |-> blocked_ips]>> ELSE <<>>)
        \o (IF blocked_countries # <<>>
            THEN <<[flag |-> "--blocked-countries", words |-> blocked_countries]>>
            ELSE <<>>)

\* run_firewall: the command it runs
FinalCommand(composed) == <<"sudo", "firewall">>

-----------------------------------------------------------------------------
(* The frames delivered to the filter *)

Addr(a, b, c, d) == a * 16777216 + b * 65536 + c * 256 + d

PktEtherTypes == {ETH_P_IP, 2054, 34525}       \* IPv4, ARP, IPv6
PktProtos == {IPPROTO_TCP, IPPROTO_UDP, 1}     \* TCP, UDP, ICMP
PktSrcs == {Addr(1, 2, 3, 4), Addr(5, 6, 7, 8), Addr(100, 1, 1, 1)}
PktPorts == {ALLOWED_HTTP, ALLOWED_HTTPS, ALLOWED_DNS, 22}
PktFills == {0, 255}
\* Frames lie in mapped memory, which ends below the top of the address space.
PktStarts == {4096, Word - MaxPktLen - 64}
PktDst == Addr(10, 0, 0, 1)

NoFrame == [len |-> 0, etype |-> 0, proto |-> 0, src |-> 0, sport |-> 0, fill |-> 0]

\* The byte the sender puts at an offset of the frame: every field in
\* network byte order.
FrameByte(f, o) ==
    CASE o = 12 -> f.etype \div 256
      [] o = 13 -> f.etype % 256
      [] o = 14 -> 69
      [] o = 23 -> f.proto
      [] o = 26 -> (f.src \div 16777216) % 256
      [] o = 27 -> (f.src \div 65536) % 256
      [] o = 28 -> (f.src \div 256) % 256
      [] o = 29 -> f.src % 256
      [] o = 30 -> (PktDst \div 16777216) % 256
      [] o = 31 -> (PktDst \div 65536) % 256
      [] o = 32 -> (PktDst \div 256) % 256
      [] o = 33 -> PktDst % 256
      [] o = 34 -> f.sport \div 256
      [] o = 35 -> f.sport % 256
      [] OTHER -> f.fill

BuildFrame(f) == [i \in 1..f.len |-> FrameByte(f, i - 1)]

\* The configurations the filter is started under: the default text with
\* each value as ensure_config_exists writes it or as an operator edits it.
XdpConfigs ==
    { Content(<<KIface, "eth0", KAllowedPorts, ap, KBlockedIps, bi, KBlockedCountries, bc>>) :
        ap \in {"80, 443", "22"}, bi \in {"", "1.2.3.4"}, bc \in {"", "CN, RU"} }

-----------------------------------------------------------------------------
(* Parts at rest *)

XdpRest ==
    /\ xpc = "off" /\ cfg = EmptyMap /\ parts = <<>> /\ launched = <<>>
    /\ pkt = <<>> /\ pktStart = 0 /\ verdict = NoVerdict /\ sent = NoFrame
PaRest == paIn = <<>> /\ paOut = <<>>
CfgRest ==
    /\ cpc = "start" /\ prevFile = Missing /\ lastOp = "none" /\ lastInput = ""
    /\ lastIface = "" /\ nUpdates = 0 /\ nEdits = 0 /\ console = ""
MainRest ==
    /\ mpc = "start" /\ running = TRUE /\ sigPending = 0 /\ ctrlcInRun = FALSE
    /\ nRuns = 0 /\ nCtrlC = 0

-----------------------------------------------------------------------------
(* Spec: the packet filter under a configuration *)

Init ==
    /\ XdpRest /\ PaRest /\ CfgRest /\ MainRest
    /\ file \in XdpConfigs

\* run_firewall: read the configuration, compose the arguments, launch
XRunFirewall ==
    /\ xpc = "off"
    /\ cfg' = parse_config(file)
    /\ parts' = ComposeParts(parse_config(file))
    /\ launched' = FinalCommand(ComposeParts(parse_config(file)))
    /\ xpc' = "idle"
    /\ UNCHANGED <<pkt, pktStart, verdict, sent, file>>

\* the environment hands a frame to the program
XReceive ==
    /\ xpc = "idle"
    /\ \E len \in 0..MaxPktLen, et \in PktEtherTypes, pr \in PktProtos,
          src \in PktSrcs, sp \in PktPorts, fill \in PktFills, start \in PktStarts :
         LET f == [len |-> len, etype |-> et, proto |-> pr, src |-> src,
                   sport |-> sp, fill |-> fill]
         IN  /\ sent' = f
             /\ pkt' = BuildFrame(f)
             /\ pktStart' = start
    /\ xpc' = "rx"
    /\ UNCHANGED <<cfg, parts, launched, verdict, file>>

\* xdp_firewall runs on the frame
XdpFirewall ==
    /\ xpc = "rx"
    /\ verdict' = <<xdp_firewall(Ctx(pktStart, pkt))>>
    /\ xpc' = "done"
    /\ UNCHANGED <<cfg, parts, launched, pkt, pktStart, sent, file>>

\* the action code is back with the environment; nothing is retained
XReturn ==
    /\ xpc = "done"
    /\ xpc' = "idle"
    /\ pkt' = <<>> /\ pktStart' = 0 /\ sent' = NoFrame /\ verdict' = NoVerdict
    /\ UNCHANGED <<cfg, parts, launched, file>>

Next ==
    \/ XRunFirewall /\ UNCHANGED <<paVars, mainVars, cpc, prevFile, lastOp, lastInput, lastIface, nUpdates, nEdits, console>>
    \/ XReceive /\ UNCHANGED <<paVars, mainVars, cpc, prevFile, lastOp, lastInput, lastIface, nUpdates, nEdits, console>>
    \/ XdpFirewall /\ UNCHANGED <<paVars, mainVars, cpc, prevFile, lastOp, lastInput, lastIface, nUpdates, nEdits, console>>
    \/ XReturn /\ UNCHANGED <<paVars, mainVars, cpc, prevFile, lastOp, lastInput, lastIface, nUpdates, nEdits, console>>

Spec == Init /\ [][Next]_vars

-----------------------------------------------------------------------------
(* The packet filter's claims *)

Range(q) == {q[i] : i \in DOMAIN q}

\* The rule set the configuration states, as numbers
PortNum(w) == CASE w = "80" -> 80 [] w = "443" -> 443 [] w = "22" -> 22 [] OTHER -> 0
AddrNum(w) == CASE w = "1.2.3.4" -> Addr(1, 2, 3, 4) [] OTHER -> 0
ConfiguredAllowedPorts == {PortNum(w) : w \in Range(Words(Get(cfg, "allowed-ports", "")))}
ConfiguredBlockedAddrs == {AddrNum(w) : w \in Range(Words(Get(cfg, "blocked-ips", "")))}
ConfiguredBlockedCountries == Range(Words(Get(cfg, "blocked-countries", "")))

Decided == xpc = "done"
SentIpv4 == sent.etype = ETH_P_IP
\* a complete Ethernet + IPv4 + TCP or UDP frame
WellFormed ==
    /\ SentIpv4
    /\ \/ sent.proto = IPPROTO_TCP /\ sent.len >= ETH_HDR_LEN + IPV4_HDR_LEN + SizeOfTcpHdr
       \/ sent.proto = IPPROTO_UDP /\ sent.len >= ETH_HDR_LEN + IPV4_HDR_LEN + SizeOfUdpHdr
BlockMatch ==
    \/ sent.src \in ConfiguredBlockedAddrs
    \/ lookup_country(sent.src) \in ConfiguredBlockedCountries

\* The frame ends inside a header the decision reads
Truncated ==
    \/ sent.len < SizeOfEthHdr
    \/ SentIpv4 /\ sent.len < ETH_HDR_LEN + SizeOfIpv4Hdr
    \/ SentIpv4 /\ sent.proto = IPPROTO_TCP
         /\ sent.len < ETH_HDR_LEN + IPV4_HDR_LEN + SizeOfTcpHdr
    \/ SentIpv4 /\ sent.proto = IPPROTO_UDP
         /\ sent.len < ETH_HDR_LEN + IPV4_HDR_LEN + SizeOfUdpHdr

\* C1: a frame that ends before a header the decision reads is complete
\* (shorter than 14 bytes; IPv4 and shorter than 34; IPv4 TCP or UDP ending
\* inside the transport header at offset 34) gets XDP_ABORTED, never Pass or Drop.
C1_TruncatedAborts == Decided /\ Truncated => verdict = <<XDP_ABORTED>>

\* C1 witness: an IPv4 TCP frame one byte short of its TCP header was aborted,
\* and so was a 13-byte frame.
C1_Witness ==
    /\ Decided /\ verdict = <<XDP_ABORTED>>
    /\ SentIpv4 /\ sent.proto = IPPROTO_TCP /\ sent.sport = ALLOWED_HTTP
    /\ sent.len = ETH_HDR_LEN + IPV4_HDR_LEN + SizeOfTcpHdr - 1

\* C2: a well-formed TCP/UDP frame whose source address is in the configured
\* blocked addresses, or whose country is in the configured blocked
\* countries, is dropped whatever its source port.
C2_BlockedIsDropped == Decided /\ WellFormed /\ BlockMatch => verdict = <<XDP_DROP>>

\* C3: a well-formed TCP/UDP frame matching no block entry passes exactly
\* when its source port is in the configured allowed ports.
C3_AllowListDecides ==
    Decided /\ WellFormed /\ ~BlockMatch =>
        /\ sent.sport \in ConfiguredAllowedPorts => verdict = <<XDP_PASS>>
        /\ sent.sport \notin ConfiguredAllowedPorts => verdict = <<XDP_DROP>>

\* C4: a frame with a complete Ethernet header whose ethertype is not IPv4
\* passes, whatever follows the 14 bytes and however little of it there is.
C4_NonIpv4Passes ==
    Decided /\ sent.len >= SizeOfEthHdr /\ ~SentIpv4 => verdict = <<XDP_PASS>>

\* C4 witness: an ARP frame of exactly 14 bytes passed.
C4_Witness ==
    /\ Decided /\ verdict = <<XDP_PASS>>
    /\ sent.etype = 2054 /\ sent.len = SizeOfEthHdr

\* C5: an IPv4 frame with complete Ethernet and IPv4 headers whose protocol is
\* neither TCP nor UDP is dropped (not aborted), whatever its source address
\* and whatever lies, or does not lie, after offset 34.
C5_OtherProtoDropped ==
    Decided /\ SentIpv4 /\ sent.len >= ETH_HDR_LEN + SizeOfIpv4Hdr
            /\ sent.proto \notin {IPPROTO_TCP, IPPROTO_UDP}
        => verdict = <<XDP_DROP>>

\* C5 witness: an ICMP frame that ends right after the IPv4 header was dropped.
C5_Witness ==
    /\ Decided /\ verdict = <<XDP_DROP>>
    /\ SentIpv4 /\ sent.proto = 1 /\ sent.len = ETH_HDR_LEN + SizeOfIpv4Hdr

-----------------------------------------------------------------------------
(* SpecPtrAt: ptr_at as a function of the window, the offset and size(T) *)

PaStarts == {16, 4096, Word - MaxPktLen - 64}
PaOffsets == {0, ETH_HDR_LEN, ETH_HDR_LEN + IPV4_HDR_LEN, MaxPktLen, Word - 20, Word - 16, Word - 1}
PaSizes == {SizeOfEthHdr, SizeOfIpv4Hdr, SizeOfTcpHdr, SizeOfUdpHdr}

\* What a call returns: the sum start + offset + len is usize arithmetic and
\* wraps in a build without overflow checks.
PtrAtReturned(ctx, offset, len) ==
    LET r == ptr_at(ctx, offset, len) IN
    [kind |-> IF r.ok THEN "view" ELSE "OutOfBounds", ptr |-> r.ptr]

\* In a build with overflow checks the same sum panics when it overflows.
PtrAtChecked(ctx, offset, len) ==
    IF ctx.data + offset + len >= Word
    THEN [kind |-> "panic", ptr |-> 0]
    ELSE PtrAtReturned(ctx, offset, len)

InitPtrAt ==
    /\ XdpRest /\ PaRest /\ CfgRest /\ MainRest
    /\ file = Missing

PaWindow(start, plen) == [data |-> start, data_end |-> start + plen, bytes |-> <<>>]

\* a call in a build whose arithmetic wraps
PtrAtCall ==
    /\ paIn = <<>>
    /\ \E start \in PaStarts, plen \in 0..MaxPktLen, offset \in PaOffsets, len \in PaSizes :
        /\ paIn' = [start |-> start, end |-> start + plen, offset |-> offset, len |-> len]
        /\ paOut' = PtrAtReturned(PaWindow(start, plen), offset, len)
    /\ UNCHANGED <<xdpVars, cfgVars, mainVars>>

\* a call in a build with overflow checks
PtrAtCallChecked ==
    /\ paIn = <<>>
    /\ \E start \in PaStarts, plen \in 0..MaxPktLen, offset \in PaOffsets, len \in PaSizes :
        /\ paIn' = [start |-> start, end |-> start + plen, offset |-> offset, len |-> len]
        /\ paOut' = PtrAtChecked(PaWindow(start, plen), offset, len)
    /\ UNCHANGED <<xdpVars, cfgVars, mainVars>>

\* the caller is done with the result
PtrAtDone ==
    /\ paIn # <<>>
    /\ paIn' = <<>> /\ paOut' = <<>>
    /\ UNCHANGED <<xdpVars, cfgVars, mainVars>>

NextPtrAt == PtrAtCall \/ PtrAtCallChecked \/ PtrAtDone

SpecPtrAt == InitPtrAt /\ [][NextPtrAt]_vars

PaCalled == paIn # <<>>
\* offset + size(T) fits in the window, in unbounded arithmetic
PaFits == paIn.offset + paIn.len <= paIn.end - paIn.start

\* C8: ptr_at returns a view only when offset + size(T) <= end - start and
\* returns the OutOfBounds error in every other case, a wrapping sum
\* start + offset + size(T) included.
C8_ViewOnlyInBounds ==
    PaCalled => /\ paOut.kind = "view" => PaFits
                /\ ~PaFits => paOut.kind = "OutOfBounds"

-----------------------------------------------------------------------------
(* SpecConfig: the tool's operations on config.cfg *)

RECURSIVE FindIface(_, _)
\* update_config_iface: the loop looking for an "iface" line that has a next
\* line; 0 when there is none
FindIface(lines, i) ==
    IF i > Len(lines) THEN 0
    ELSE IF Trim(lines[i]) = KIface /\ i + 1 <= Len(lines) THEN i
    ELSE FindIface(lines, i + 1)

HasLine(lines, k) == \E i \in DOMAIN lines : Trim(lines[i]) = k

\* update_config_iface: the lines it writes
UpdatedLines(lines, new_iface) ==
    LET at == FindIface(lines, 1)
        l1 == IF at # 0 THEN [lines EXCEPT ![at + 1] = new_iface]
              ELSE lines \o <<KIface, new_iface>>
        l2 == IF HasLine(l1, KAllowedPorts) THEN l1 ELSE l1 \o <<KAllowedPorts, "80, 443">>
        l3 == IF HasLine(l2, KBlockedIps) THEN l2 ELSE l2 \o <<KBlockedIps, "">>
        l4 == IF HasLine(l3, KBlockedCountries) THEN l3 ELSE l3 \o <<KBlockedCountries, "">>
    IN  l4

\* update_config_iface
update_config_iface(f, new_iface) ==
    Content(JoinLines(UpdatedLines(Lines(ReadToString(f)), new_iface)))

\* ensure_config_exists
ensure_config_exists(f) == IF ~f.exists THEN Content(DefaultConfig) ELSE f

\* datalink::interfaces()
SysInterfaces == <<"lo", "eth0", "wlan0">>
\* choose_interface: the list it prints
Interfaces == SelectSeq(SysInterfaces, LAMBDA name : name # "lo")

\* What an operator types at the prompt
InputTexts == {"0", "1", "2", "3", "18446744073709551616", "eth1"}

\* The decimal digits of a text made of digits only; <<>> for any other text
DigitsOf(s) ==
    CASE s = "0" -> <<0>> [] s = "1" -> <<1>> [] s = "2" -> <<2>> [] s = "3" -> <<3>>
      [] s = "18446744073709551616" -> <<1,8,4,4,6,7,4,4,0,7,3,7,0,9,5,5,1,6,1,6>>
      [] OTHER -> <<>>

\* usize::MAX on a 64-bit target, in decimal
UsizeMaxDigits == <<1,8,4,4,6,7,4,4,0,7,3,7,0,9,5,5,1,6,1,5>>
\* a stand-in for the indices beyond every list
TopIndex == 2 ^ 30

RECURSIVE DigitsGreater(_, _, _)
DigitsGreater(a, b, i) ==
    IF i > Len(a) THEN FALSE
    ELSE IF a[i] # b[i] THEN a[i] > b[i]
    ELSE DigitsGreater(a, b, i + 1)

RECURSIVE DigitsValue(_, _, _)
DigitsValue(d, i, acc) ==
    IF i > Len(d) THEN acc ELSE DigitsValue(d, i + 1, acc * 10 + d[i])

\* input.parse::<usize>()
ParseUsize(s) ==
    LET d == DigitsOf(s) IN
    IF d = <<>> THEN [ok |-> FALSE, val |-> 0]
    ELSE IF Len(d) > Len(UsizeMaxDigits)
            \/ (Len(d) = Len(UsizeMaxDigits) /\ DigitsGreater(d, UsizeMaxDigits, 1))
         THEN [ok |-> FALSE, val |-> 0]
    ELSE IF Len(d) > 9 THEN [ok |-> TRUE, val |-> TopIndex]
    ELSE [ok |-> TRUE, val |-> DigitsValue(d, 1, 0)]

\* index - 1 on usize: with overflow checks 0 - 1 panics, without it wraps to
\* usize::MAX
IndexMinusOne(index, checked) ==
    IF index = 0
    THEN IF checked THEN [panic |-> TRUE, at |-> 0] ELSE [panic |-> FALSE, at |-> TopIndex]
    ELSE [panic |-> FALSE, at |-> index - 1]

\* interfaces.get(at).map(|iface| iface.name.clone()), at counted from 0
GetName(at) ==
    IF at + 1 \in DOMAIN Interfaces
    THEN [some |-> TRUE, name |-> Interfaces[at + 1]]
    ELSE [some |-> FALSE, name |-> ""]

LineAlphabet ==
    {KIface, KIfacePadded, KAllowedPorts, KBlockedIps, KBlockedCountries, "eth0", "22", ""}
Texts == UNION {[1..n -> LineAlphabet] : n \in 1..MaxLines}

\* config.cfg is whatever earlier runs and editors left, or is not there
InitConfig ==
    /\ XdpRest /\ PaRest /\ CfgRest /\ MainRest
    /\ file \in {Missing} \cup {Content(t) : t \in Texts}

\* main: ensure_config_exists, then the menu
CEnsureConfigExists ==
    /\ cpc = "start"
    /\ prevFile' = file
    /\ file' = ensure_config_exists(file)
    /\ lastOp' = "ensure"
    /\ cpc' = "menu"
    /\ UNCHANGED <<lastInput, lastIface, nUpdates, nEdits, console>>

\* menu choice 3, choose_interface, with text typed at the prompt
CChooseInterface ==
    /\ cpc = "menu"
    /\ nUpdates < MaxUpdates
    /\ \E input \in InputTexts, checked \in BOOLEAN :
         LET parsed == ParseUsize(input)
             idx == IndexMinusOne(parsed.val, checked)
             selected == IF parsed.ok THEN GetName(idx.at)
                         ELSE [some |-> TRUE, name |-> input]
         IN  /\ lastInput' = input
             /\ prevFile' = file
             /\ IF parsed.ok /\ idx.panic
                THEN /\ cpc' = "crashed"
                     /\ lastOp' = "choose"
                     /\ console' = "panic"
                     /\ UNCHANGED <<file, lastIface, nUpdates>>
                ELSE IF selected.some
                THEN /\ file' = update_config_iface(file, selected.name)
                     /\ lastIface' = selected.name
                     /\ nUpdates' = nUpdates + 1
                     /\ lastOp' = "update"
                     /\ console' = "saved"
                     /\ cpc' = "menu"
                ELSE /\ console' = "invalid"
                     /\ lastOp' = "choose"
                     /\ cpc' = "menu"
                     /\ UNCHANGED <<file, lastIface, nUpdates>>
    /\ UNCHANGED nEdits

\* choose_interface when the prompt fails or is interrupted
CChooseInterrupted ==
    /\ cpc = "menu"
    /\ lastOp # "interrupted"
    /\ prevFile' = file
    /\ lastOp' = "interrupted"
    /\ console' = "interrupted"
    /\ UNCHANGED <<cpc, file, lastInput, lastIface, nUpdates, nEdits>>

\* menu choice 2, configure_file: the editor leaves the file alone (and may
\* fail), appends a line or removes the last line
CConfigureFile ==
    /\ cpc = "menu"
    /\ nEdits < MaxEdits
    /\ nEdits' = nEdits + 1
    /\ prevFile' = file
    /\ lastOp' = "edit"
    /\ nUpdates' = 0
    /\ LET segs == ReadToString(file) IN
       \/ /\ file' = file
          /\ console' \in {"", "editor-failed"}
       \/ /\ Len(segs) < MaxLines
          /\ \E l \in LineAlphabet : file' = Content(segs \o <<l>>)
          /\ console' = ""
       \/ /\ Len(segs) > 1
          /\ file' = Content(SubSeq(segs, 1, Len(segs) - 1))
          /\ console' = ""
    /\ UNCHANGED <<cpc, lastInput, lastIface>>

NextConfig ==
    \/ CEnsureConfigExists /\ UNCHANGED <<xdpVars, paVars, mainVars>>
    \/ CChooseInterface /\ UNCHANGED <<xdpVars, paVars, mainVars>>
    \/ CChooseInterrupted /\ UNCHANGED <<xdpVars, paVars, mainVars>>
    \/ CConfigureFile /\ UNCHANGED <<xdpVars, paVars, mainVars>>

SpecConfig == InitConfig /\ [][NextConfig]_vars

-----------------------------------------------------------------------------
(* The configuration file's claims *)

Updated == lastOp = "update"
LinesNow == Lines(ReadToString(file))
LinesBefore == Lines(ReadToString(prevFile))
KeyLines == {KIface, KAllowedPorts, KBlockedIps, KBlockedCountries}
CountLine(lines, k) == Cardinality({i \in DOMAIN lines : Trim(lines[i]) = k})
Max(a, b) == IF a >= b THEN a ELSE b

\* C6: after update_config_iface(X), parse_config gives "iface" the value X
\* and gives every other key it gave before the value it had before.
C6_RoundTrip ==
    Updated =>
        LET now == parse_config(file)
            before == parse_config(prevFile)
        IN  /\ "iface" \in DOMAIN now
            /\ now["iface"] = lastIface
            /\ \A k \in DOMAIN before \ {"iface"} :
                  k \in DOMAIN now /\ now[k] = before[k]

\* the default value line follows the key line k in the text written
FollowedBy(segs, k, value) ==
    \E i \in DOMAIN segs : Trim(segs[i]) = k /\ i + 1 <= Len(segs) /\ segs[i + 1] = value

\* C7: after an update each of the four key lines is in the file, a key that
\* was absent is there with its default (80, 443; empty lists), the update
\* has duplicated no key line, and a second or later update in a row adds no
\* line.
C7_KeysOnceEach ==
    Updated =>
        /\ \A k \in KeyLines : HasLine(LinesNow, k)
        /\ ~HasLine(LinesBefore, KAllowedPorts) => FollowedBy(file.segs, KAllowedPorts, "80, 443")
        /\ ~HasLine(LinesBefore, KBlockedIps) => FollowedBy(file.segs, KBlockedIps, "")
        /\ ~HasLine(LinesBefore, KBlockedCountries) => FollowedBy(file.segs, KBlockedCountries, "")
        /\ \A k \in KeyLines : CountLine(LinesNow, k) <= Max(1, CountLine(LinesBefore, k))
        /\ nUpdates >= 2 => Len(LinesNow) = Len(LinesBefore)

\* the text typed is a number that is no index 1..n of the list printed
NumericNotIndex(input) ==
    LET d == DigitsOf(input) IN
    /\ d # <<>>
    /\ ~(Len(d) <= 9 /\ DigitsValue(d, 1, 0) \in 1..Len(Interfaces))

\* C9: a number that is no index of the list printed is answered with the
\* invalid-choice message, config.cfg is unchanged and the tool is back at
\* the menu, not crashed.
C9_InvalidChoiceRecovered ==
    lastOp \in {"choose", "update"} /\ NumericNotIndex(lastInput) =>
        /\ console = "invalid"
        /\ file = prevFile
        /\ cpc = "menu"

-----------------------------------------------------------------------------
(* SpecMain: main's loop, run_firewall's wait loop and the Ctrl+C handler,  *)
(* one step per shared access. The menu's choices 2 and 3 act on            *)
(* config.cfg only (SpecConfig) and appear here as a return to the loop.   *)

InRun == mpc \in {"launch", "wait", "sleep"}

InitMain ==
    /\ XdpRest /\ PaRest /\ CfgRest /\ MainRest
    /\ file = Missing

\* main: ensure_config_exists, the flag created true, the handler installed
MStart ==
    /\ mpc = "start"
    /\ file' = ensure_config_exists(file)
    /\ running' = TRUE
    /\ mpc' = "loop"
    /\ UNCHANGED <<sigPending, ctrlcInRun, nRuns, nCtrlC, cfg, parts, launched>>

\* main's loop: running.store(true), then the menu is shown
MReset ==
    /\ mpc = "loop"
    /\ running' = TRUE
    /\ mpc' = "menu"
    /\ UNCHANGED <<sigPending, ctrlcInRun, nRuns, nCtrlC, cfg, parts, launched, file>>

\* show_main_menu: choice 1, run_firewall is entered
MChooseRun ==
    /\ mpc = "menu"
    /\ nRuns < MaxRuns
    /\ nRuns' = nRuns + 1
    /\ ctrlcInRun' = FALSE
    /\ mpc' = "launch"
    /\ UNCHANGED <<running, sigPending, nCtrlC, cfg, parts, launched, file>>

\* run_firewall: the configuration is read, the arguments composed, the
\* command run to its end
MLaunch ==
    /\ mpc = "launch"
    /\ cfg' = parse_config(file)
    /\ parts' = ComposeParts(parse_config(file))
    /\ launched' = FinalCommand(ComposeParts(parse_config(file)))
    /\ mpc' = "wait"
    /\ UNCHANGED <<running, sigPending, ctrlcInRun, nRuns, nCtrlC, file>>

\* run_firewall: while running.load()
MLoad ==
    /\ mpc = "wait"
    /\ mpc' = IF running THEN "sleep" ELSE "stopped"
    /\ UNCHANGED <<running, sigPending, ctrlcInRun, nRuns, nCtrlC, cfg, parts, launched, file>>

\* run_firewall: thread::sleep in the loop body
MSleep ==
    /\ mpc = "sleep"
    /\ mpc' = "wait"
    /\ UNCHANGED <<running, sigPending, ctrlcInRun, nRuns, nCtrlC, cfg, parts, launched, file>>

\* run_firewall returns, show_main_menu returns true
MStopped ==
    /\ mpc = "stopped"
    /\ mpc' = "loop"
    /\ UNCHANGED <<running, sigPending, ctrlcInRun, nRuns, nCtrlC, cfg, parts, launched, file>>

\* show_main_menu: choice 2 or 3, or the selection fails; it returns true
MMenuOther ==
    /\ mpc = "menu"
    /\ mpc' = "loop"
    /\ UNCHANGED <<running, sigPending, ctrlcInRun, nRuns, nCtrlC, cfg, parts, launched, file>>

\* show_main_menu: choice 4 returns false and main leaves the loop
MExit ==
    /\ mpc = "menu"
    /\ mpc' = "exit"
    /\ UNCHANGED <<running, sigPending, ctrlcInRun, nRuns, nCtrlC, cfg, parts, launched, file>>

\* a Ctrl+C reaches the process once the handler is installed
CtrlC ==
    /\ mpc \notin {"start", "exit"}
    /\ nCtrlC < MaxCtrlC
    /\ nCtrlC' = nCtrlC + 1
    /\ sigPending' = sigPending + 1
    /\ ctrlcInRun' = (ctrlcInRun \/ InRun)
    /\ UNCHANGED <<mpc, running, nRuns, cfg, parts, launched, file>>

\* the handler thread runs the closure: r.store(false)
Handler ==
    /\ sigPending > 0
    /\ sigPending' = sigPending - 1
    /\ running' = FALSE
    /\ UNCHANGED <<mpc, ctrlcInRun, nRuns, nCtrlC, cfg, parts, launched, file>>

MainOthers ==
    UNCHANGED <<paVars, xpc, pkt, pktStart, verdict, sent,
                cpc, prevFile, lastOp, lastInput, lastIface, nUpdates, nEdits, console>>

NextMain ==
    \/ MStart /\ MainOthers
    \/ MReset /\ MainOthers
    \/ MChooseRun /\ MainOthers
    \/ MLaunch /\ MainOthers
    \/ MLoad /\ MainOthers
    \/ MSleep /\ MainOthers
    \/ MStopped /\ MainOthers
    \/ MMenuOther /\ MainOthers
    \/ MExit /\ MainOthers
    \/ CtrlC /\ MainOthers
    \/ Handler /\ MainOthers

SpecMain == InitMain /\ [][NextMain]_vars

\* C10: run_firewall leaves its wait loop only after a Ctrl+C that arrived
\* since that run was entered; a Ctrl+C from before the run (while the menu
\* was shown) does not end it.
C10_RunEndsOnOwnCtrlC == mpc = "stopped" => ctrlcInRun

=============================================================================
